---------------------------- MODULE Spec2Model ----------------------------
(***************************************************************************)
(* A model of claudecode/secret_detector.py: one call of                   *)
(* SecretDetector.detect_and_mask_secrets, step by step, together with the *)
(* environment it talks to (the gitleaks process, the `date` process that  *)
(* _log spawns, the temporary files).                                      *)
(*                                                                         *)
(* Text is a sequence of one-character strings.  A JSON value is a tagged  *)
(* record.  Every helper of the detector is an operator that returns the   *)
(* SET of outcomes the code can produce for given environment answers: a   *)
(* _log call, with verbose on, spawns `date` without a guard and so may    *)
(* raise at any call.                                                      *)
(*                                                                         *)
(* A second part models claudecode/ai_security_runner.py: one call of      *)
(* AISecurityRunner.run_security_audit with the client of                  *)
(* claudecode/ai_models/azure_openai_client.py, whose call_with_retry it   *)
(* calls at each attempt.                                                  *)
(***************************************************************************)
EXTENDS Integers, Sequences, FiniteSets, TLC

VARIABLES
    pc,              \* position of the call in detect_and_mask_secrets
    faults,          \* whether the environment may answer with failures
    verbose,         \* self.verbose
    pr_diff,         \* the argument of the call
    result,          \* what the call gave its caller: nothing yet, a value, an exception
    temp_file,       \* local variable temp_file: "None" or "path"
    report_file,     \* local variable report_file: "None" or "path"
    secrets,         \* local variable secrets (the list the scan returned)
    tempFs,          \* the temporary input file on disk
    reportFs,        \* the report path on disk
    exitStatus,      \* how the detect subprocess ended
    probe,           \* what _is_gitleaks_available gave
    scan,            \* what _run_gitleaks_detect gave
    masking,         \* what _apply_file_based_masking gave
    log,             \* the diagnostics printed on stderr (those Kept)
    versionRuns,     \* how many times `gitleaks version` was run
    detectRuns,      \* how many times `gitleaks detect` was run
    dateRan,         \* whether _log ran `date`
    failures,        \* the internal failures met so far
    events,          \* the file-system and process events of the call, in order
    calls,           \* two concurrent calls: the position and the paths of each
    disk,            \* the temporary directory the concurrent calls share
    audit,           \* one call of AISecurityRunner.run_security_audit
    client           \* the AI client: its configuration and its current call_with_retry

\* The state of the one call followed step by step.
callVars == <<pc, faults, verbose, pr_diff, result, temp_file, report_file, secrets,
              tempFs, reportFs, exitStatus, probe, scan, masking, log, versionRuns,
              detectRuns, dateRan, failures, events>>

\* The state of the two concurrent calls.
pairVars == <<calls, disk>>

\* The state of the security audit and of its AI client.
auditVars == <<audit, client>>

vars == <<callVars, pairVars, auditVars>>

---------------------------------------------------------------------------
(* Bounds of the model. *)

\* Longest diff of a call checked with a failing environment.
MaxCallLen == 2
\* Longest diff of a call checked with a reliable environment.
MaxDiffLen == 3
\* Longest secret value in a report.
MaxSecretLen == 2
\* Most findings in a report.
MaxFindings == 2
\* Most records in a report of an unreliable engine.
MaxCallFindings == 2

\* The characters of the model: a letter, the placeholder's first character
\* and a blank.
Alphabet == {"a", "[", " "}
Whitespace == {" ", "\t", "\n", "\r"}

\* The characters of a diff: those of the secrets and the line endings.
DiffAlphabet == Alphabet \cup {"\r", "\n"}

\* The characters of the diffs and secrets of a call checked with a failing
\* environment.
CallAlphabet == {"a", " "}

RECURSIVE Strs(_, _)
\* The texts over A of at most n characters.
Strs(A, n) ==
    IF n = 0 THEN {<<>>}
    ELSE LET r == Strs(A, n - 1)
         IN  r \cup {Append(s, c) : s \in {x \in r : Len(x) = n - 1}, c \in A}

---------------------------------------------------------------------------
(* Python's str operations. *)

\* s[i:i+len(v)] == v
MatchAt(s, v, i) ==
    /\ i + Len(v) - 1 <= Len(s)
    /\ SubSeq(s, i, i + Len(v) - 1) = v

RECURSIVE CountFrom(_, _, _)
CountFrom(s, v, i) ==
    IF i + Len(v) - 1 > Len(s) THEN 0
    ELSE IF MatchAt(s, v, i) THEN 1 + CountFrom(s, v, i + Len(v))
    ELSE CountFrom(s, v, i + 1)

\* A count that stops at the first occurrence.
StrCountAny(s, v) == IF \E i \in 1..Len(s) : MatchAt(s, v, i) THEN 1 ELSE 0

\* str.count: the non-overlapping occurrences, found left to right.
StrCount(s, v) == IF v = <<>> THEN Len(s) + 1 ELSE CountFrom(s, v, 1)

RECURSIVE ReplaceFrom(_, _, _, _)
ReplaceFrom(s, v, p, i) ==
    IF i > Len(s) THEN <<>>
    ELSE IF MatchAt(s, v, i) THEN p \o ReplaceFrom(s, v, p, i + Len(v))
    ELSE <<s[i]>> \o ReplaceFrom(s, v, p, i + 1)

RECURSIVE Interleave(_, _, _)
Interleave(s, p, i) ==
    IF i > Len(s) THEN p ELSE p \o <<s[i]>> \o Interleave(s, p, i + 1)

\* A replace that stops after the first occurrence.
StrReplaceOnce(s, v, p) ==
    IF v = <<>> THEN p \o s
    ELSE IF \E i \in 1..Len(s) : MatchAt(s, v, i)
    THEN LET i == CHOOSE k \in 1..Len(s) :
                      MatchAt(s, v, k) /\ \A m \in 1..(k - 1) : ~MatchAt(s, v, m)
         IN  SubSeq(s, 1, i - 1) \o p \o SubSeq(s, i + Len(v), Len(s))
    ELSE s

\* str.replace: every non-overlapping occurrence, left to right.
StrReplace(s, v, p) ==
    IF v = <<>> THEN Interleave(s, p, 1) ELSE ReplaceFrom(s, v, p, 1)

\* v in s
StrIn(v, s) == \E i \in 1..(Len(s) + 1) : MatchAt(s, v, i)

\* not s.strip(): no character is left once the white space is stripped.
StripsToEmpty(s) == \A i \in 1..Len(s) : s[i] \in Whitespace

\* The placeholder written into the text.
MASK_TEXT ==
    <<"[", "S", "E", "N", "S", "I", "T", "I", "V", "E", "_", "D", "A", "T", "A",
      "_", "R", "E", "M", "O", "V", "E", "D", "]">>

\* The placeholder recorded, logged and documented.
MASK_LABEL ==
    <<"[", "R", "E", "D", "A", "C", "T", "E", "D", "_", "S", "E", "C", "R", "E",
      "T", "]">>

\* open(path, 'w').write(s) on the runner (POSIX): '\n' stays '\n'.
WriteText(s) == s

RECURSIVE Universal(_, _)
Universal(s, i) ==
    IF i > Len(s) THEN <<>>
    ELSE IF s[i] = "\r" /\ i < Len(s) /\ s[i + 1] = "\n"
         THEN <<"\n">> \o Universal(s, i + 2)
    ELSE IF s[i] = "\r" THEN <<"\n">> \o Universal(s, i + 1)
    ELSE <<s[i]>> \o Universal(s, i + 1)

\* open(path, 'r').read(): universal newlines, "\r\n" and "\r" become "\n".
ReadText(s) == Universal(s, 1)

---------------------------------------------------------------------------
(* The report: JSON values as tagged records. *)

Str(s) == [t |-> "str", s |-> s]
Null == [t |-> "null", s |-> <<>>]
Num == [t |-> "num", s |-> <<>>]
Missing == [t |-> "missing", s |-> <<>>]

\* dict.get(key, default)
Get(rec, key, default) == IF rec[key].t = "missing" THEN default ELSE rec[key]

\* A JSON object of the array; obj is FALSE for an item that is no object.
Item(obj, S, s, R, r) ==
    [obj |-> obj, Secret |-> S, secret |-> s, RuleID |-> R, rule |-> r]

Finding(v) == Item(TRUE, Str(v), Missing, Str(<<"r">>), Missing)

\* secret.get('Secret', secret.get('secret', ''))
SecretOf(item) == Get(item, "Secret", Get(item, "secret", Str(<<>>)))
\* secret.get('RuleID', secret.get('rule', 'unknown'))
RuleOf(item) == Get(item, "RuleID", Get(item, "rule", Str(<<"unknown">>)))

Arr(items) == [t |-> "arr", truthy |-> items # <<>>, items |-> items]
Other(t, truthy) == [t |-> t, truthy |-> truthy, items |-> <<>>]

\* What is at the report path: nothing, a zero-length file, text that is
\* no JSON, or a JSON value.
Absent == [k |-> "absent", json |-> Other("null", FALSE)]
ZeroLength == [k |-> "empty", json |-> Other("null", FALSE)]
Invalid == [k |-> "invalid", json |-> Other("null", FALSE)]
Json(j) == [k |-> "json", json |-> j]

RECURSIVE Lists(_, _)
Lists(S, n) ==
    IF n = 0 THEN {<<>>}
    ELSE LET r == Lists(S, n - 1)
         IN  r \cup {Append(l, x) : l \in {y \in r : Len(y) = n - 1}, x \in S}


---------------------------------------------------------------------------
(* _log: the diagnostics. *)

\* A diagnostic line: its level, what it says, and the text it carries.
Lg(level, tag) == <<level, tag, <<>>>>
LgText(level, tag, text) == <<level, tag, text>>

\* How many of a run of _log calls can complete: with verbose off _log does
\* nothing; with verbose on each call runs `date` unguarded before it prints,
\* so any call may raise, and the calls after it are not made.
Runs(msgs) == IF verbose THEN 0..Len(msgs) ELSE {Len(msgs)}

\* Whether the log of the model keeps a line: the warnings, the errors and
\* the lines that carry text of a finding.
Kept(line) == line[1] # "INFO" \/ line[3] # <<>>

\* What n completed calls printed, of the lines the model keeps.
Printed(msgs, n) ==
    IF verbose THEN {msgs[i] : i \in {k \in 1..n : Kept(msgs[k])}} ELSE {}

\* Whether n completed calls ran `date`.
RanDate(msgs, n) == verbose /\ n > 0

\* The n-th call was the last to complete and the next one raised.
LogRaised(msgs, n) == n < Len(msgs)

TruncAt20 == 20
TruncAt30 == 30

\* f"{s[:k]}{'...' if len(s) > k else ''}"
Truncated(s, k) ==
    IF Len(s) > k THEN SubSeq(s, 1, k) \o <<".", ".", ".">> ELSE s

---------------------------------------------------------------------------
(* _is_gitleaks_available *)

ProbeAnswers == {"exit0", "exit_nonzero", "not_found", "timeout", "other_exc"}

\* A probe that finds the engine whatever the version command did.
IsGitleaksAvailableAlways(out) ==
    {[ret |-> "true", printed |-> {}, date |-> FALSE, logFailed |-> FALSE]}

\* The outcomes of _is_gitleaks_available when `gitleaks version` ends as
\* `out`: ret is "true", "false" or "raise".
IsGitleaksAvailable(out) ==
    LET body == CASE out = "exit0" -> <<Lg("INFO", "gitleaks_found")>>
                  [] out = "exit_nonzero" -> <<Lg("WARNING", "gitleaks_not_available")>>
                  [] OTHER -> <<>>
        \* `date` failing inside the try raises an OSError, which the first
        \* handler takes when it is a FileNotFoundError.
        handler == IF out = "other_exc"
                   THEN <<Lg("WARNING", "error_checking_gitleaks")>>
                   ELSE <<Lg("WARNING", "gitleaks_not_in_path")>>
        threw == out \in {"not_found", "timeout", "other_exc"}
    IN  { LET handled == threw \/ LogRaised(body, n1)
          IN  [ret |-> IF ~handled THEN (IF out = "exit0" THEN "true" ELSE "false")
                       ELSE IF LogRaised(handler, n2) THEN "raise" ELSE "false",
               printed |-> Printed(body, n1)
                           \cup (IF handled THEN Printed(handler, n2) ELSE {}),
               date |-> RanDate(body, n1) \/ (handled /\ RanDate(handler, n2)),
               logFailed |-> LogRaised(body, n1) \/ (handled /\ LogRaised(handler, n2))]
          : n1 \in Runs(body), n2 \in Runs(handler) }

---------------------------------------------------------------------------
(* _run_gitleaks_detect *)

DetectAnswers == {"exit0", "exit1", "timeout", "exc"}

\* The lines logged for one record of the report (lines 173-180).
RecordLines(item) ==
    <<Lg("INFO", "secret_n"), Lg("INFO", "rule"), Lg("INFO", "file"),
      Lg("INFO", "line"), Lg("INFO", "match"),
      LgText("INFO", "secret", Truncated(SecretOf(item).s, TruncAt20)),
      LgText("INFO", "full_value", SecretOf(item).s),
      Lg("INFO", "separator")>>

\* Whether lines 167-178 raise for a record: a record that is no object has
\* no .get; a secret value that is no string has no slice or len.
RecordRaises(item) == ~item.obj \/ SecretOf(item).t # "str"

RECURSIVE LoopLines(_, _)
\* The lines logged by the loop over the records, up to the first record
\* that raises.
LoopLines(items, i) ==
    IF i > Len(items) \/ RecordRaises(items[i]) THEN <<>>
    ELSE RecordLines(items[i]) \o LoopLines(items, i + 1)

LoopRaises(items) == \E i \in 1..Len(items) : RecordRaises(items[i])

\* The try body of _run_gitleaks_detect once the process has exited: the
\* lines it logs, how it ends ("return", "decode_error", "raise"), and
\* whether and after how many lines it opens the report.
ScanBody(rep, readable) ==
    LET pre == <<Lg("INFO", "exit_code"), Lg("INFO", "gitleaks_output")>>
        size == <<Lg("INFO", "report_size")>>
        head == <<Lg("INFO", "results_header"), Lg("INFO", "found_n"),
                  Lg("INFO", "separator")>>
        j == rep.json
        Body(lines, ends, value, opens) ==
            [lines |-> lines, ends |-> ends, value |-> value,
             opens |-> opens, openAt |-> Len(pre \o size)]
    IN  CASE rep.k = "absent" ->
               Body(pre \o <<Lg("INFO", "report_not_found")>>, "return", <<>>, FALSE)
          [] rep.k = "empty" ->
               Body(pre \o size \o <<Lg("INFO", "report_empty")>>, "return", <<>>, FALSE)
          [] ~readable ->
               \* open() raises an OSError
               Body(pre \o size, "raise", <<>>, FALSE)
          [] rep.k = "invalid" ->
               Body(pre \o size, "decode_error", <<>>, TRUE)
          [] ~j.truthy ->
               Body(pre \o size, "return", <<>>, TRUE)
          [] j.t \in {"num", "bool"} ->
               \* len(secrets) raises TypeError
               Body(pre \o size \o SubSeq(head, 1, 1), "raise", <<>>, TRUE)
          [] j.t \in {"obj", "str"} ->
               \* the loop yields keys or characters, which have no .get
               Body(pre \o size \o head, "raise", <<>>, TRUE)
          [] OTHER ->
               Body(pre \o size \o head \o LoopLines(j.items, 1),
                    IF LoopRaises(j.items) THEN "raise" ELSE "return",
                    j.items, TRUE)

\* A run that stops at the first exit status that is not zero.
ExitedCleanly(out) == out = "exit0"

\* Whether subprocess.run came back (no check=True, no test of returncode):
\* the report is looked for after any exit status.
Exited(out) == out \in {"exit0", "exit1"}

\* The outcomes of _run_gitleaks_detect when `gitleaks detect` ends as `out`
\* and leaves `rep` at the report path: ret is "returned" (the pair
\* (value, report_file)) or "raised".
RunGitleaksDetect(out, rep, readable) ==
    LET b == IF Exited(out) THEN ScanBody(rep, readable)
             ELSE [lines |-> <<>>, ends |-> "raise", value |-> <<>>,
                   opens |-> FALSE, openAt |-> 0]
        inner == <<Lg("ERROR", "parse_failed")>>
        outer == IF out = "timeout" THEN <<Lg("WARNING", "scan_timed_out")>>
                 ELSE <<Lg("ERROR", "error_running_gitleaks")>>
    IN  { LET bodyRaised == LogRaised(b.lines, n)
              inInner == ~bodyRaised /\ b.ends = "decode_error"
              inOuter == \/ bodyRaised
                         \/ b.ends = "raise"
                         \/ (inInner /\ LogRaised(inner, ni))
          IN  [ret |-> IF inOuter /\ LogRaised(outer, no) THEN "raised" ELSE "returned",
               value |-> IF ~inOuter /\ ~inInner THEN b.value ELSE <<>>,
               readReport |-> b.opens /\ n >= b.openAt,
               printed |-> Printed(b.lines, n)
                           \cup (IF inInner THEN Printed(inner, ni) ELSE {})
                           \cup (IF inOuter THEN Printed(outer, no) ELSE {}),
               date |-> \/ RanDate(b.lines, n)
                        \/ (inInner /\ RanDate(inner, ni))
                        \/ (inOuter /\ RanDate(outer, no)),
               excepted |-> inOuter \/ inInner,
               logFailed |-> \/ bodyRaised
                             \/ (inInner /\ LogRaised(inner, ni))
                             \/ (inOuter /\ LogRaised(outer, no))]
          : n \in Runs(b.lines), ni \in Runs(inner), no \in Runs(outer) }

---------------------------------------------------------------------------
(* _apply_file_based_masking *)

\* if secret_value and len(secret_value.strip()) > 0
IsMaskable(item) ==
    LET v == SecretOf(item)
    IN  v.t = "str" /\ v.s # <<>> /\ ~StripsToEmpty(v.s)

\* Whether lines 223-226 raise for a record: no .get on a record that is no
\* object, no .strip on a number (None is falsy and is skipped).
MaskRaises(item) == ~item.obj \/ SecretOf(item).t = "num"

\* One pass of the loop (lines 222-250) over a record; marks keeps, for each
\* record passed, how many lines the loop has logged once it is done.
MaskStep(acc, item) ==
    LET v == SecretOf(item).s
        occurrences == StrCount(acc.text, v)
    IN  IF IsMaskable(item)
        THEN [text |-> StrReplace(acc.text, v, MASK_TEXT),
              total |-> acc.total + occurrences,
              redacted |-> Append(acc.redacted,
                                  [rule |-> RuleOf(item).s, original |-> v,
                                   occurrences |-> occurrences,
                                   replaced_with |-> MASK_LABEL]),
              lines |-> acc.lines \o
                        <<Lg("INFO", "redacting_n"), Lg("INFO", "rule"),
                          LgText("INFO", "original", v), Lg("INFO", "found_n_occurrences"),
                          LgText("INFO", "replaced_with", MASK_LABEL),
                          Lg("INFO", "separator")>>,
              marks |-> Append(acc.marks, Len(acc.lines) + 6),
              raised |-> FALSE]
        ELSE [acc EXCEPT !.lines = acc.lines \o <<Lg("INFO", "skipping")>>,
                         !.marks = Append(acc.marks, Len(acc.lines) + 1)]

RECURSIVE MaskLoop(_, _, _)
\* The loop over the findings, in the order given, up to a record that raises.
MaskLoop(acc, items, i) ==
    IF i > Len(items) THEN acc
    ELSE IF MaskRaises(items[i]) THEN [acc EXCEPT !.raised = TRUE]
    ELSE MaskLoop(MaskStep(acc, items[i]), items, i + 1)

RECURSIVE DetailLines(_, _)
\* The detailed redaction log (lines 260-264).
DetailLines(redacted, i) ==
    IF i > Len(redacted) THEN <<>>
    ELSE <<Lg("INFO", "rule"),
           LgText("INFO", "original", Truncated(redacted[i].original, TruncAt30)),
           Lg("INFO", "occurrences"),
           LgText("INFO", "replaced_with", redacted[i].replaced_with)>>
         \o DetailLines(redacted, i + 1)

\* The outcomes of _apply_file_based_masking on the file `file` and the
\* findings `items`; r1 and r2 say whether the two reads of the file succeed.
ApplyFileBasedMasking(file, items, r1, r2) ==
    LET pre == <<Lg("INFO", "masking_start"), Lg("INFO", "separator")>>
        canRead == file.exists /\ r1
        canReadAgain == file.exists /\ r2
        content == ReadText(file.content)
        loop == MaskLoop([text |-> content, total |-> 0, redacted |-> <<>>,
                          lines |-> <<>>, marks |-> <<>>, raised |-> FALSE],
                         items, 1)
        tail == <<Lg("INFO", "redaction_summary"), Lg("INFO", "total_processed"),
                  Lg("INFO", "total_replacements"), Lg("INFO", "successfully_redacted")>>
                \o (IF loop.redacted # <<>>
                    THEN <<Lg("INFO", "detailed_log")>> \o DetailLines(loop.redacted, 1)
                    ELSE <<>>)
                \o <<Lg("INFO", "masking_completed"), Lg("INFO", "separator")>>
        body == IF ~canRead THEN <<>>
                ELSE IF loop.raised THEN loop.lines
                ELSE loop.lines \o tail
        bodyThrows == ~canRead \/ loop.raised
        handler == <<Lg("ERROR", "masking_error")>>
        fallback == <<Lg("ERROR", "fallback_read_error")>>
    IN  { LET started == ~LogRaised(pre, np)
              failed == started /\ (bodyThrows \/ LogRaised(body, n))
              handled == failed /\ ~LogRaised(handler, nh)
              lost == handled /\ ~canReadAgain
          IN  [ret |-> IF ~started \/ (failed /\ ~handled)
                          \/ (lost /\ LogRaised(fallback, nf))
                       THEN "raised" ELSE "returned",
               text |-> IF started /\ ~failed THEN loop.text
                        ELSE IF handled /\ canReadAgain THEN content
                        ELSE <<>>,
               completed |-> started /\ ~failed,
               total |-> loop.total,
               redacted |-> loop.redacted,
               readFailed |-> started /\ ~canRead,
               \* the record in whose pass a _log call raised, 0 if none did
               stoppedAt |-> IF started /\ canRead /\ n < Len(loop.lines)
                             THEN CHOOSE i \in 1..Len(loop.marks) :
                                      /\ n < loop.marks[i]
                                      /\ \A k \in 1..(i - 1) : n >= loop.marks[k]
                             ELSE 0,
               printed |-> Printed(pre, np)
                           \cup (IF started THEN Printed(body, n) ELSE {})
                           \cup (IF failed THEN Printed(handler, nh) ELSE {})
                           \cup (IF lost THEN Printed(fallback, nf) ELSE {}),
               date |-> \/ RanDate(pre, np)
                        \/ (started /\ RanDate(body, n))
                        \/ (failed /\ RanDate(handler, nh))
                        \/ (lost /\ RanDate(fallback, nf)),
               logFailed |-> \/ ~started
                             \/ (started /\ LogRaised(body, n))
                             \/ (failed /\ ~handled)
                             \/ (lost /\ LogRaised(fallback, nf))]
          : np \in Runs(pre), n \in Runs(body), nh \in Runs(handler),
            nf \in Runs(fallback) }

---------------------------------------------------------------------------
(* The environment of a call. *)

\* Answers of an operation that may fail.
Okays == IF faults THEN BOOLEAN ELSE {TRUE}

ProbeAnswersNow == IF faults THEN ProbeAnswers ELSE {"exit0"}
DetectAnswersNow == IF faults THEN DetectAnswers ELSE {"exit0", "exit1"}

\* Records of a report an unreliable engine may write: findings, a record
\* with a null secret, a value that is no object.
CallItems ==
    {Finding(<<"a">>), Finding(<<>>),
     Item(TRUE, Null, Missing, Str(<<"r">>), Missing),
     Item(FALSE, Missing, Missing, Missing, Missing)}

CallReports ==
    {Absent, ZeroLength, Invalid}
    \cup {Json(Other(t, b)) : t \in {"obj", "num", "str", "bool"}, b \in BOOLEAN}
    \cup {Json(Other("null", FALSE))}
    \cup {Json(Arr(l)) : l \in Lists(CallItems, MaxCallFindings)}

\* Records that spell their keys in the secondary convention, in both with
\* the primary one empty, or in neither.
KeyItems ==
    {Item(TRUE, Str(<<>>), Str(<<"a">>), Str(<<>>), Str(<<"r">>)),
     Item(TRUE, Missing, Str(<<"a">>), Missing, Str(<<"r">>)),
     Item(TRUE, Missing, Missing, Missing, Missing)}

\* Records of a report a reliable engine writes.
MaskItems == {Finding(v) : v \in Strs(Alphabet, MaxSecretLen)} \cup KeyItems

\* Reports of a reliable engine: an array of well-formed findings.
MaskReports == {Json(Arr(l)) : l \in Lists(MaskItems, MaxFindings)}

\* What the engine may leave at the report path when it ends as `out`.
ReportsLeft(out) ==
    IF ~faults THEN MaskReports
    ELSE IF out = "exc" THEN {Absent}
    ELSE CallReports

---------------------------------------------------------------------------
(* detect_and_mask_secrets, step by step. *)

NoResult == [kind |-> "none", value |-> <<>>]
Returned(v) == [kind |-> "returned", value |-> v]
Raised == [kind |-> "raised", value |-> <<>>]

NoFile == [exists |-> FALSE, content |-> <<>>]
File(text) == [exists |-> TRUE, content |-> text]

NoProbe == [answer |-> "none", ret |-> "none"]
NoScan ==
    [ret |-> "none", value |-> <<>>, readReport |-> FALSE, saw |-> "none",
     readable |-> FALSE]
NoMasking ==
    [ret |-> "none", text |-> <<>>, completed |-> FALSE, total |-> 0,
     redacted |-> <<>>, stoppedAt |-> 0, summaryDetected |-> FALSE,
     summaryCount |-> 0, summarised |-> FALSE]

\* The except clause of lines 80-82, entered with `printed` already logged:
\* it logs an ERROR and returns pr_diff; the finally clause follows.
Handler(printed, date, why) ==
    LET msgs == <<Lg("ERROR", "error_during_secret_detection")>>
    IN  \E n \in Runs(msgs) :
            /\ log' = log \cup printed \cup Printed(msgs, n)
            /\ dateRan' = (dateRan \/ date \/ RanDate(msgs, n))
            /\ failures' = failures \cup why
                           \cup (IF LogRaised(msgs, n) THEN {"log"} ELSE {})
            /\ result' = IF LogRaised(msgs, n) THEN Raised ELSE Returned(pr_diff)
            /\ pc' = "cleanup_temp"

\* Lines 35-39: the empty-input check and the first diagnostic.
Start ==
    /\ pc = "start"
    /\ LET blank == pr_diff = <<>> \/ StripsToEmpty(pr_diff)
           msgs == IF blank THEN <<Lg("WARNING", "no_diff_content")>>
                   ELSE <<Lg("INFO", "analyzing")>>
       IN  \E n \in Runs(msgs) :
               /\ log' = log \cup Printed(msgs, n)
               /\ dateRan' = (dateRan \/ RanDate(msgs, n))
               /\ failures' = IF LogRaised(msgs, n) THEN failures \cup {"log"}
                              ELSE failures
               /\ result' = IF LogRaised(msgs, n) THEN Raised
                            ELSE IF blank THEN Returned(pr_diff)
                            ELSE result
               /\ pc' = IF LogRaised(msgs, n) \/ blank THEN "done" ELSE "probe"
    /\ UNCHANGED <<faults, verbose, pr_diff, temp_file, report_file, secrets,
                   tempFs, reportFs, exitStatus, probe, scan, masking,
                   versionRuns, detectRuns, events>>
    /\ UNCHANGED <<pairVars, auditVars>>

\* Lines 41-44: the availability probe and the early return.
Probe ==
    /\ pc = "probe"
    /\ \E out \in ProbeAnswersNow :
        \E r \in IsGitleaksAvailable(out) :
            LET msgs == IF r.ret = "false"
                        THEN <<Lg("WARNING", "gitleaks_unavailable_returning_original")>>
                        ELSE <<>>
            IN  \E n \in Runs(msgs) :
                    /\ probe' = [answer |-> out, ret |-> r.ret]
                    /\ versionRuns' = versionRuns + 1
                    /\ events' = Append(events, "probe")
                    /\ log' = log \cup r.printed \cup Printed(msgs, n)
                    /\ dateRan' = (dateRan \/ r.date \/ RanDate(msgs, n))
                    /\ failures' = failures
                           \cup (IF out # "exit0" THEN {"unavailable"} ELSE {})
                           \cup (IF r.logFailed \/ LogRaised(msgs, n) THEN {"log"} ELSE {})
                    /\ result' = IF r.ret = "raise" \/ LogRaised(msgs, n) THEN Raised
                                 ELSE IF r.ret = "false" THEN Returned(pr_diff)
                                 ELSE result
                    /\ pc' = IF r.ret = "true" THEN "create" ELSE "done"
    /\ UNCHANGED <<faults, verbose, pr_diff, temp_file, report_file, secrets,
                   tempFs, reportFs, exitStatus, scan, masking, detectRuns>>
    /\ UNCHANGED <<pairVars, auditVars>>

\* Line 50: tempfile.NamedTemporaryFile(mode='w', suffix='.diff', delete=False).
Create ==
    /\ pc = "create"
    /\ \E ok \in Okays :
        IF ok
        THEN /\ tempFs' = File(<<>>)
             /\ events' = Append(events, "create")
             /\ pc' = "write"
             /\ UNCHANGED <<log, dateRan, failures, result>>
        ELSE /\ Handler({}, FALSE, {"create"})
             /\ UNCHANGED <<tempFs, events>>
    /\ UNCHANGED <<faults, verbose, pr_diff, temp_file, report_file, secrets,
                   reportFs, exitStatus, probe, scan, masking, versionRuns,
                   detectRuns>>
    /\ UNCHANGED <<pairVars, auditVars>>

\* Lines 51-54: the diff is written, the file closed, its name kept.
Write ==
    /\ pc = "write"
    /\ \E ok \in Okays :
        IF ok
        THEN /\ tempFs' = File(WriteText(pr_diff))
             /\ temp_file' = "path"
             /\ events' = Append(events, "write")
             /\ LET msgs == <<Lg("INFO", "created_temporary_file")>>
                IN  \E n \in Runs(msgs) :
                        IF LogRaised(msgs, n)
                        THEN Handler(Printed(msgs, n), RanDate(msgs, n), {"log"})
                        ELSE /\ log' = log \cup Printed(msgs, n)
                             /\ dateRan' = (dateRan \/ RanDate(msgs, n))
                             /\ pc' = "detect"
                             /\ UNCHANGED <<failures, result>>
        ELSE \* f.write raises: the file stays, temp_file is still None
             /\ Handler({}, FALSE, {"write"})
             /\ UNCHANGED <<tempFs, temp_file, events>>
    /\ UNCHANGED <<faults, verbose, pr_diff, report_file, secrets, reportFs,
                   exitStatus, probe, scan, masking, versionRuns, detectRuns>>
    /\ UNCHANGED <<pairVars, auditVars>>

\* Lines 130-143: the report name is reserved and `gitleaks detect` runs.
Detect ==
    /\ pc = "detect"
    /\ \E out \in DetectAnswersNow :
        \E rep \in ReportsLeft(out) :
            /\ exitStatus' = out
            /\ reportFs' = rep
    /\ detectRuns' = detectRuns + 1
    /\ events' = Append(events, "detect")
    /\ pc' = "scan"
    /\ UNCHANGED <<faults, verbose, pr_diff, result, temp_file, report_file,
                   secrets, tempFs, probe, scan, masking, log, versionRuns,
                   dateRan, failures>>
    /\ UNCHANGED <<pairVars, auditVars>>

\* Lines 145-198 and the assignment of line 57: the report is looked for,
\* read and parsed, and the pair (secrets, report_file) comes back.
Scan ==
    /\ pc = "scan"
    /\ \E readable \in Okays :
        \E r \in RunGitleaksDetect(exitStatus, reportFs, readable) :
            LET why == (IF exitStatus = "timeout" THEN {"timeout"} ELSE {})
                       \cup (IF exitStatus = "exc" THEN {"engine"} ELSE {})
                       \cup (IF r.excepted /\ Exited(exitStatus)
                             THEN {"report"} ELSE {})
                       \cup (IF r.logFailed THEN {"log"} ELSE {})
            IN  /\ scan' = [ret |-> r.ret, value |-> r.value,
                            readReport |-> r.readReport, saw |-> reportFs.k,
                            readable |-> readable]
                /\ events' = IF r.readReport THEN Append(events, "read_report")
                             ELSE events
                /\ IF r.ret = "raised"
                   THEN /\ Handler(r.printed, r.date, why)
                        /\ UNCHANGED <<secrets, report_file>>
                   ELSE /\ secrets' = r.value
                        /\ report_file' = "path"
                        /\ log' = log \cup r.printed
                        /\ dateRan' = (dateRan \/ r.date)
                        /\ failures' = failures \cup why
                        /\ pc' = "mask"
                        /\ UNCHANGED result
    /\ UNCHANGED <<faults, verbose, pr_diff, temp_file, tempFs, reportFs,
                   exitStatus, probe, masking, versionRuns, detectRuns>>
    /\ UNCHANGED <<pairVars, auditVars>>

\* Lines 59-78: the findings are masked in the text of the temporary file,
\* or the diff is returned as it came.
Mask ==
    /\ pc = "mask"
    /\ IF secrets # <<>>
       THEN \E r1 \in Okays, r2 \in Okays :
            \E m \in ApplyFileBasedMasking(tempFs, secrets, r1, r2) :
                LET first == <<Lg("INFO", "found_n_applying_masking")>>
                    detected == StrIn(MASK_LABEL, m.text)
                    count == StrCount(m.text, MASK_LABEL)
                    summary == <<Lg("INFO", "final_summary"), Lg("INFO", "original_size"),
                                 Lg("INFO", "masked_size"),
                                 Lg("INFO", IF detected THEN "detected_yes" ELSE "detected_no"),
                                 Lg("INFO", "redaction_count")>>
                    why == (IF m.readFailed THEN {"mask_read"} ELSE {})
                           \cup (IF m.logFailed THEN {"log"} ELSE {})
                IN  \E n0 \in Runs(first), n \in Runs(summary) :
                        IF LogRaised(first, n0)
                        THEN /\ Handler(Printed(first, n0), RanDate(first, n0), {"log"})
                             /\ UNCHANGED <<masking, events>>
                        ELSE /\ events' = Append(events, "mask")
                             /\ masking' =
                                    [ret |-> m.ret, text |-> m.text,
                                     completed |-> m.completed, total |-> m.total,
                                     redacted |-> m.redacted,
                                     stoppedAt |-> m.stoppedAt,
                                     summaryDetected |-> detected,
                                     summaryCount |-> count,
                                     summarised |-> m.ret = "returned"
                                                    /\ ~LogRaised(summary, n)]
                             /\ IF m.ret = "raised"
                                THEN Handler(Printed(first, n0) \cup m.printed,
                                             RanDate(first, n0) \/ m.date, why)
                                ELSE IF LogRaised(summary, n)
                                THEN Handler(Printed(first, n0) \cup m.printed
                                                 \cup Printed(summary, n),
                                             RanDate(first, n0) \/ m.date
                                                 \/ RanDate(summary, n),
                                             why \cup {"log"})
                                ELSE /\ log' = log \cup Printed(first, n0) \cup m.printed
                                                   \cup Printed(summary, n)
                                     /\ dateRan' = (dateRan \/ RanDate(first, n0)
                                                    \/ m.date \/ RanDate(summary, n))
                                     /\ failures' = failures \cup why
                                     /\ result' = Returned(m.text)
                                     /\ pc' = "cleanup_temp"
       ELSE LET msgs == <<Lg("INFO", "no_secrets_detected"), Lg("INFO", "final_summary"),
                          Lg("INFO", "original_size"), Lg("INFO", "masked_size"),
                          Lg("INFO", "detected_no"), Lg("INFO", "redaction_count")>>
            IN  \E n \in Runs(msgs) :
                    /\ UNCHANGED <<masking, events>>
                    /\ IF LogRaised(msgs, n)
                       THEN Handler(Printed(msgs, n), RanDate(msgs, n), {"log"})
                       ELSE /\ log' = log \cup Printed(msgs, n)
                            /\ dateRan' = (dateRan \/ RanDate(msgs, n))
                            /\ result' = Returned(pr_diff)
                            /\ pc' = "cleanup_temp"
                            /\ UNCHANGED failures
    /\ UNCHANGED <<faults, verbose, pr_diff, temp_file, report_file, secrets,
                   tempFs, reportFs, exitStatus, probe, scan, versionRuns,
                   detectRuns>>
    /\ UNCHANGED <<pairVars, auditVars>>

\* One half of the finally clause (lines 85-90 or 92-97): the path is
\* unlinked when the local variable holds it and the file exists; an OSError
\* of os.unlink, and of the `date` of the success line, is caught and logged
\* as a WARNING, and that _log call is not guarded.
Unlink(held, exists, ok, cleaned, warned, n1, n2) ==
    LET tried == held /\ exists
        said == tried /\ ok
        caught == tried /\ (~ok \/ LogRaised(cleaned, n1))
    IN  [removed |-> tried /\ ok,
         printed |-> (IF said THEN Printed(cleaned, n1) ELSE {})
                     \cup (IF caught THEN Printed(warned, n2) ELSE {}),
         date |-> (said /\ RanDate(cleaned, n1)) \/ (caught /\ RanDate(warned, n2)),
         unlinkFailed |-> tried /\ ~ok,
         logFailed |-> (said /\ LogRaised(cleaned, n1))
                       \/ (caught /\ LogRaised(warned, n2)),
         raised |-> caught /\ LogRaised(warned, n2)]

CleanedTemp == <<Lg("INFO", "cleaned_up_temporary_file")>>
FailedTemp == <<Lg("WARNING", "failed_to_clean_up_temporary_file")>>
CleanedReport == <<Lg("INFO", "cleaned_up_report_file")>>
FailedReport == <<Lg("WARNING", "failed_to_clean_up_report_file")>>

\* Lines 85-90: the temporary input file is cleaned up.
CleanupTemp ==
    /\ pc = "cleanup_temp"
    /\ \E ok \in Okays, n1 \in Runs(CleanedTemp), n2 \in Runs(FailedTemp) :
        LET u == Unlink(temp_file = "path", tempFs.exists, ok,
                        CleanedTemp, FailedTemp, n1, n2)
        IN  /\ tempFs' = IF u.removed THEN NoFile ELSE tempFs
            /\ events' = IF u.removed THEN Append(events, "unlink_temp") ELSE events
            /\ log' = log \cup u.printed
            /\ dateRan' = (dateRan \/ u.date)
            /\ failures' = failures
                           \cup (IF u.unlinkFailed THEN {"unlink"} ELSE {})
                           \cup (IF u.logFailed THEN {"log"} ELSE {})
            /\ result' = IF u.raised THEN Raised ELSE result
            /\ pc' = IF u.raised THEN "done" ELSE "cleanup_report"
    /\ UNCHANGED <<faults, verbose, pr_diff, temp_file, report_file, secrets,
                   reportFs, exitStatus, probe, scan, masking, versionRuns,
                   detectRuns>>
    /\ UNCHANGED <<pairVars, auditVars>>

\* Lines 92-97: the report file is cleaned up, and the call ends.
CleanupReport ==
    /\ pc = "cleanup_report"
    /\ \E ok \in Okays, n1 \in Runs(CleanedReport), n2 \in Runs(FailedReport) :
        LET u == Unlink(report_file = "path", reportFs.k # "absent", ok,
                        CleanedReport, FailedReport, n1, n2)
        IN  /\ reportFs' = IF u.removed THEN Absent ELSE reportFs
            /\ events' = IF u.removed THEN Append(events, "unlink_report") ELSE events
            /\ log' = log \cup u.printed
            /\ dateRan' = (dateRan \/ u.date)
            /\ failures' = failures
                           \cup (IF u.unlinkFailed THEN {"unlink"} ELSE {})
                           \cup (IF u.logFailed THEN {"log"} ELSE {})
            /\ result' = IF u.raised THEN Raised ELSE result
            /\ pc' = "done"
    /\ UNCHANGED <<faults, verbose, pr_diff, temp_file, report_file, secrets,
                   tempFs, exitStatus, probe, scan, masking, versionRuns,
                   detectRuns>>
    /\ UNCHANGED <<pairVars, auditVars>>

\* Lines 288-290: with verbose on, every _log call waits for `date` in a
\* subprocess.run that has no timeout.  A `date` that never exits leaves
\* the call waiting in the step that logs: every step logs at least one
\* line, save the creation of the file (which logs when it fails only), the
\* spawning of the engine, and a cleanup that finds nothing to unlink.
DateHangs ==
    /\ verbose
    /\ \/ pc \in {"start", "probe", "write", "scan", "mask"}
       \/ pc = "create" /\ faults
       \/ pc = "cleanup_temp" /\ temp_file = "path" /\ tempFs.exists
       \/ pc = "cleanup_report" /\ report_file = "path" /\ reportFs.k # "absent"
    /\ pc' = "blocked"
    /\ dateRan' = TRUE
    /\ UNCHANGED <<faults, verbose, pr_diff, result, temp_file, report_file,
                   secrets, tempFs, reportFs, exitStatus, probe, scan, masking,
                   log, versionRuns, detectRuns, failures, events>>
    /\ UNCHANGED <<pairVars, auditVars>>

---------------------------------------------------------------------------
(* Two concurrent calls on one temporary directory: the paths they take. *)

Calls == {1, 2}

\* The names the temporary directory can give: tempfile draws each name at
\* random, with the suffix asked for.
InputPaths == {"tmp1.diff", "tmp2.diff"}
ReportPaths == {"tmp1.json", "tmp2.json"}

\* What is at a path: nothing, the diff of a call, or a report written by
\* the engine of call `by` about the diff of call `of`.
Nothing == [kind |-> "none", of |-> 0, by |-> 0]
DiffOf(i) == [kind |-> "diff", of |-> i, by |-> i]
ReportOn(of, by) == [kind |-> "report", of |-> of, by |-> by]

\* A call: where it is, its paths, the call whose diff the report it read
\* was about (0: none read), and the calls whose files it unlinked.
NoCall ==
    [pc |-> "create", temp_file |-> "None", report_file |-> "None",
     read |-> 0, removed |-> {}]

\* Lines 50-52: NamedTemporaryFile creates the input file under a name no
\* file has (O_EXCL), and the diff is written into it.
PairCreate ==
    /\ \E i \in Calls, p \in InputPaths :
        /\ calls[i].pc = "create"
        /\ disk[p] = Nothing
        /\ disk' = [disk EXCEPT ![p] = DiffOf(i)]
        /\ calls' = [calls EXCEPT ![i].temp_file = p, ![i].pc = "reserve"]
    /\ UNCHANGED <<callVars, auditVars>>

\* Line 130: tempfile.mktemp returns a name no file has at that moment,
\* and creates nothing.
PairReserve ==
    /\ \E i \in Calls, q \in ReportPaths :
        /\ calls[i].pc = "reserve"
        /\ disk[q] = Nothing
        /\ calls' = [calls EXCEPT ![i].report_file = q, ![i].pc = "detect"]
    /\ UNCHANGED <<callVars, auditVars, disk>>

\* Lines 132-143: the engine scans the input file and writes its report at
\* the report path, over whatever is there, or ends without a report.
PairDetect ==
    /\ \E i \in Calls, wrote \in BOOLEAN :
        /\ calls[i].pc = "detect"
        /\ disk' = IF wrote
                   THEN [disk EXCEPT ![calls[i].report_file] =
                                         ReportOn(disk[calls[i].temp_file].of, i)]
                   ELSE disk
        /\ calls' = [calls EXCEPT ![i].pc = "scan"]
    /\ UNCHANGED <<callVars, auditVars>>

\* Lines 152-159: the report at the report path, if any, is read.
PairScan ==
    /\ \E i \in Calls :
        /\ calls[i].pc = "scan"
        /\ calls' = [calls EXCEPT ![i].read = disk[calls[i].report_file].of,
                                  ![i].pc = "cleanup_temp"]
    /\ UNCHANGED <<callVars, auditVars, disk>>

\* Lines 85-88: the input file is unlinked if it exists.
PairCleanupTemp ==
    /\ \E i \in Calls :
        LET p == calls[i].temp_file
        IN  /\ calls[i].pc = "cleanup_temp"
            /\ disk' = [disk EXCEPT ![p] = Nothing]
            /\ calls' = [calls EXCEPT
                             ![i].removed = IF disk[p] = Nothing THEN @
                                            ELSE @ \cup {disk[p].by},
                             ![i].pc = "cleanup_report"]
    /\ UNCHANGED <<callVars, auditVars>>

\* Lines 92-95: the file at the report path is unlinked if it exists.
PairCleanupReport ==
    /\ \E i \in Calls :
        LET q == calls[i].report_file
        IN  /\ calls[i].pc = "cleanup_report"
            /\ disk' = [disk EXCEPT ![q] = Nothing]
            /\ calls' = [calls EXCEPT
                             ![i].removed = IF disk[q] = Nothing THEN @
                                            ELSE @ \cup {disk[q].by},
                             ![i].pc = "done"]
    /\ UNCHANGED <<callVars, auditVars>>

---------------------------------------------------------------------------
(* The AI client: AzureOpenAIClient.call_with_retry. *)

\* Most retries a configuration asks for.
MaxRetries == 3
\* ModelConfig.max_tokens.
ConfigMaxTokens == 16384

\* A message: the pieces an f-string puts together; "" is <<>>.
NoText == <<>>
IsEmptyText(m) == \A i \in 1..Len(m) : m[i] = ""

\* str(e) of the exceptions a request can end with (an API error, or
\* choices[0] on an answer without choices).
Errors == {"", "timeout", "list index out of range"}

\* response.choices[0].message.content: None or a text.
NoneContent == [none |-> TRUE, text |-> <<>>]
TextContent(t) == [none |-> FALSE, text |-> t]
Contents == {NoneContent, TextContent(<<>>), TextContent(<<"{", "}">>)}

\* What the API did, in order: a request and how it ended, or a wait.
Request(ok) == [kind |-> "request", ok |-> ok, secs |-> 0]
Wait(secs) == [kind |-> "wait", ok |-> FALSE, secs |-> secs]

\* What call_with_retry gives: nothing yet, or (success, response_text,
\* error_message).
NoReturn == [kind |-> "none", ok |-> FALSE, text |-> NoneContent, error |-> NoText]
Return(ok, text, error) == [kind |-> "returned", ok |-> ok, text |-> text, error |-> error]

\* Python's `a or b` on Optional[int]: 0 stands for None.
OrInt(a, b) == IF a = 0 THEN b ELSE a

\* The client with its configuration, not in a call.
ClientOf(max_retries) ==
    [pc |-> "idle", max_retries |-> max_retries, system_prompt |-> FALSE,
     max_tokens |-> 0, messages |-> <<>>, attempt |-> 0, err |-> "",
     trace |-> <<>>, result |-> NoReturn]

NoClient == ClientOf(0)

\* Line 88: the failed attempt was the last one.
LastAttemptOffByOne(attempt, max_retries) == attempt = max_retries

LastAttempt(attempt, max_retries) == attempt = max_retries - 1

\* Lines 67-73: max_tokens and the messages.
ClientEnter ==
    /\ client.pc = "enter"
    /\ client' = [client EXCEPT
                      !.max_tokens = OrInt(@, ConfigMaxTokens),
                      !.messages = (IF client.system_prompt THEN <<"system">> ELSE <<>>)
                                       \o <<"user">>,
                      !.attempt = 0,
                      !.pc = "loop"]
    /\ UNCHANGED <<callVars, pairVars, audit>>

\* Lines 75 and 94: the next attempt of range(max_retries), or the return
\* after the loop.
ClientLoop ==
    /\ client.pc = "loop"
    /\ client' = IF client.attempt < client.max_retries
                 THEN [client EXCEPT !.pc = "request"]
                 ELSE [client EXCEPT
                           !.result = Return(FALSE, TextContent(<<>>),
                                             <<"Unexpected error in retry logic">>),
                           !.pc = "returned"]
    /\ UNCHANGED <<callVars, pairVars, audit>>

\* Lines 76-85: one request; its content is returned, or it raises.
ClientRequest ==
    /\ client.pc = "request"
    /\ \/ \E c \in Contents :
            client' = [client EXCEPT
                           !.trace = Append(@, Request(TRUE)),
                           !.result = Return(TRUE, c, NoText),
                           !.pc = "returned"]
       \/ \E e \in Errors :
            client' = [client EXCEPT
                           !.trace = Append(@, Request(FALSE)),
                           !.err = e,
                           !.pc = "except"]
    /\ UNCHANGED <<callVars, pairVars, audit>>

\* Lines 87-92: the handler returns the failure after the last attempt and
\* sleeps 2 ** attempt otherwise.
ClientExcept ==
    /\ client.pc = "except"
    /\ client' = IF LastAttempt(client.attempt, client.max_retries)
                 THEN [client EXCEPT
                           !.result = Return(FALSE, TextContent(<<>>),
                                             <<"Azure OpenAI API call failed after ",
                                               ToString(client.max_retries),
                                               " attempts: ", client.err>>),
                           !.pc = "returned"]
                 ELSE [client EXCEPT
                           !.trace = Append(@, Wait(2 ^ client.attempt)),
                           !.attempt = @ + 1,
                           !.pc = "loop"]
    /\ UNCHANGED <<callVars, pairVars, audit>>

---------------------------------------------------------------------------
(* AISecurityRunner.run_security_audit *)

\* Line 65.
NUM_RETRIES == 3

\* Longest prompt.
MaxPromptLen == 1

\* A prompt is a sequence of code points: 'p', U+00E9, and the lone
\* surrogate U+D800 that a str can hold and UTF-8 cannot encode.
PromptAlphabet == {112, 233, 55296}
IsSurrogate(cp) == cp \in 55296..57343
Utf8Bytes(cp) ==
    IF cp < 128 THEN 1 ELSE IF cp < 2048 THEN 2 ELSE IF cp < 65536 THEN 3 ELSE 4

\* str.encode('utf-8'): raises on a surrogate.
Encodable(prompt) == \A i \in 1..Len(prompt) : ~IsSurrogate(prompt[i])

RECURSIVE Utf8Len(_)
Utf8Len(prompt) ==
    IF prompt = <<>> THEN 0 ELSE Utf8Bytes(Head(prompt)) + Utf8Len(Tail(prompt))

\* A parsed value: a dict with some of the keys, or another JSON value.
Dict(keys, findings, completed) ==
    [type |-> "dict", keys |-> keys, findings |-> findings,
     review_completed |-> completed]
EmptyDict == Dict({}, 0, FALSE)
NonDict(type) ==
    [type |-> type, keys |-> {}, findings |-> 0, review_completed |-> FALSE]
ParsedValues ==
    {Dict({"findings", "analysis_summary"}, n, TRUE) : n \in 0..1}
        \cup {Dict({"findings"}, n, FALSE) : n \in 0..1}
        \cup {Dict({"analysis_summary"}, 0, TRUE), EmptyDict}
        \cup {NonDict("list"), NonDict("str")}

\* Line 82: parse_json_with_fallbacks gives (success, parsed_result).
ParseOutcomes ==
    {[ok |-> TRUE, value |-> v] : v \in ParsedValues}
        \cup {[ok |-> FALSE, value |-> EmptyDict]}

\* _extract_security_findings
ExtractSecurityFindings(ai_output) ==
    IF ai_output.type = "dict" /\ "findings" \in ai_output.keys
    THEN ai_output
    ELSE Dict({"findings", "analysis_summary"}, 0, FALSE)

\* What the audit gave its caller: nothing yet, a triple, an exception.
NoTriple == [kind |-> "none", ok |-> FALSE, msg |-> NoText, results |-> EmptyDict]
Triple(ok, msg, results) ==
    [kind |-> "returned", ok |-> ok, msg |-> msg, results |-> results]
AuditRaised(e) ==
    [kind |-> "raised", ok |-> FALSE, msg |-> <<e>>, results |-> EmptyDict]

\* No audit: the runner is not in a call.
NoAudit ==
    [pc |-> "idle", repo_exists |-> FALSE, prompt |-> <<>>, attempt |-> 0,
     outcomes |-> <<>>, sleeps |-> <<>>, warned |-> FALSE, parsed |-> EmptyDict,
     result |-> NoTriple]

AuditOf(repo_exists, prompt) ==
    [NoAudit EXCEPT !.pc = "start", !.repo_exists = repo_exists, !.prompt = prompt]

\* Lines 54-60: the repository check, then the size of the prompt.
AuditStart ==
    /\ audit.pc = "start"
    /\ audit' =
         IF ~audit.repo_exists
         THEN [audit EXCEPT
                   !.result = Triple(FALSE, <<"Repository directory does not exist: ",
                                              "repo_dir">>, EmptyDict),
                   !.pc = "done"]
         ELSE IF ~Encodable(audit.prompt)
         THEN [audit EXCEPT !.result = AuditRaised("UnicodeEncodeError"), !.pc = "done"]
         ELSE [audit EXCEPT
                   !.warned = Utf8Len(audit.prompt) > 1024 * 1024,
                   !.attempt = 0,
                   !.pc = "loop"]
    /\ UNCHANGED <<callVars, pairVars, client>>

\* Lines 66-75 and 103: the next attempt of range(NUM_RETRIES) calls the
\* client, or the loop is over.
AuditAttempt ==
    /\ audit.pc = "loop"
    /\ IF audit.attempt < NUM_RETRIES
       THEN /\ audit' = [audit EXCEPT !.pc = "call"]
            /\ client' = [ClientOf(client.max_retries) EXCEPT
                              !.system_prompt = FALSE,
                              !.max_tokens = 16384,
                              !.pc = "enter"]
       ELSE /\ audit' = [audit EXCEPT
                             !.result = Triple(FALSE,
                                               <<"Unexpected error in retry logic">>,
                                               EmptyDict),
                             !.pc = "done"]
            /\ UNCHANGED client
    /\ UNCHANGED <<callVars, pairVars>>

\* Lines 89-92 and 96-99: the attempt failed; what comes next.
Retry(a, outcome, failure) ==
    IF a.attempt = 0
    THEN [a EXCEPT !.outcomes = Append(@, outcome),
                   !.sleeps = Append(@, 2),
                   !.attempt = @ + 1,
                   !.pc = "loop"]
    ELSE [a EXCEPT !.outcomes = Append(@, outcome),
                   !.result = failure,
                   !.pc = "done"]

\* Lines 77-101 and 105-106: what the client returned is handled.
AuditHandle ==
    /\ audit.pc = "call"
    /\ client.pc = "returned"
    /\ LET r == client.result
       IN  IF r.ok
           THEN IF r.text.none
                THEN \* line 79: len(None) raises, line 105 catches
                     audit' = [audit EXCEPT
                                   !.outcomes = Append(@, "error"),
                                   !.result = Triple(FALSE,
                                       <<"AI security analysis error: ",
                                         "object of type 'NoneType' has no len()">>,
                                       EmptyDict),
                                   !.pc = "done"]
                ELSE \E p \in ParseOutcomes :
                       audit' =
                         IF p.ok
                         THEN [audit EXCEPT
                                   !.outcomes = Append(@, "parsed"),
                                   !.parsed = p.value,
                                   !.result = Triple(TRUE, NoText,
                                                 ExtractSecurityFindings(p.value)),
                                   !.pc = "done"]
                         ELSE Retry(audit, "unparseable",
                                    Triple(FALSE,
                                           <<"Failed to parse AI response as JSON">>,
                                           EmptyDict))
           ELSE audit' = Retry(audit, "call_failed",
                               Triple(FALSE,
                                      <<"AI security analysis failed: ">> \o r.error,
                                      EmptyDict))
    /\ UNCHANGED <<callVars, pairVars, client>>

---------------------------------------------------------------------------
(* The specifications. *)

InitCall ==
    /\ pc = "start"
    /\ result = NoResult
    /\ temp_file = "None"
    /\ report_file = "None"
    /\ secrets = <<>>
    /\ tempFs = NoFile
    /\ reportFs = Absent
    /\ exitStatus = "none"
    /\ probe = NoProbe
    /\ scan = NoScan
    /\ masking = NoMasking
    /\ log = {}
    /\ versionRuns = 0
    /\ detectRuns = 0
    /\ dateRan = FALSE
    /\ failures = {}
    /\ events = <<>>
    /\ calls = [i \in Calls |-> NoCall]
    /\ disk = [p \in InputPaths \cup ReportPaths |-> Nothing]

\* The runner and its client are not in a call.
InitIdle ==
    /\ audit = NoAudit
    /\ client = NoClient

\* A call in an environment that may fail at every step.
Init ==
    /\ faults = TRUE
    /\ verbose \in BOOLEAN
    /\ pr_diff \in Strs(CallAlphabet, MaxCallLen)
    /\ InitCall
    /\ InitIdle

\* A call in a reliable environment, with verbose off: what the call computes.
InitMask ==
    /\ faults = FALSE
    /\ verbose = FALSE
    /\ pr_diff \in Strs(DiffAlphabet, MaxDiffLen)
    /\ InitCall
    /\ InitIdle

Next ==
    \/ Start
    \/ Probe
    \/ Create
    \/ Write
    \/ Detect
    \/ Scan
    \/ Mask
    \/ CleanupTemp
    \/ CleanupReport

Spec == Init /\ [][Next]_vars

SpecMask == InitMask /\ [][Next]_vars

\* A call whose processes may never exit: the engine's are waited for with
\* a timeout (the probe and the detect then end as "timeout"), `date` is
\* not.  The call is sequential code that runs on as long as it can.
NextLive ==
    \/ Next
    \/ DateHangs

SpecLive == Init /\ [][NextLive]_vars /\ WF_vars(Next)

\* Two calls at once, in any interleaving of their steps.
NextPair ==
    \/ PairCreate
    \/ PairReserve
    \/ PairDetect
    \/ PairScan
    \/ PairCleanupTemp
    \/ PairCleanupReport

\* Two calls about to create their input files.
InitPair ==
    /\ faults = FALSE
    /\ verbose = FALSE
    /\ pr_diff = <<"a">>
    /\ InitCall
    /\ InitIdle

SpecPair == InitPair /\ [][NextPair]_vars

\* One security audit: the runner's steps and those of its client.
NextAudit ==
    \/ AuditStart
    \/ AuditAttempt
    \/ ClientEnter
    \/ ClientLoop
    \/ ClientRequest
    \/ ClientExcept
    \/ AuditHandle

\* An audit about to start, on a repository that exists or not, with a
\* client configured from AI_MAX_RETRIES.
InitAudit ==
    /\ faults = FALSE
    /\ verbose = FALSE
    /\ pr_diff = <<"a">>
    /\ InitCall
    /\ \E repo_exists \in BOOLEAN, prompt \in Strs(PromptAlphabet, MaxPromptLen) :
           audit = AuditOf(repo_exists, prompt)
    /\ \E max_retries \in -1..MaxRetries : client = ClientOf(max_retries)

SpecAudit == InitAudit /\ [][NextAudit]_vars

---------------------------------------------------------------------------
(* The claims. *)

Blank(s) == s = <<>> \/ StripsToEmpty(s)
Called == pc = "done"
SecretText(i) == SecretOf(secrets[i]).s

\* An occurrence of v can share a position with a placeholder of the text:
\* v lies inside the placeholder, holds it, or runs over one of its ends.
CanOverlapMask(v) ==
    \/ StrIn(v, MASK_TEXT)
    \/ StrIn(MASK_TEXT, v)
    \/ \E k \in 1..Len(v) :
        /\ k <= Len(MASK_TEXT)
        /\ \/ SubSeq(v, Len(v) - k + 1, Len(v)) = SubSeq(MASK_TEXT, 1, k)
           \/ SubSeq(v, 1, k)
                = SubSeq(MASK_TEXT, Len(MASK_TEXT) - k + 1, Len(MASK_TEXT))

\* C1, as claimed: the text returned holds no occurrence of any non-empty
\* secret value of the findings, whatever their order, save a value that
\* is a substring of the placeholder; white space values included.
C1_EverySecretGone ==
    Called /\ result.kind = "returned" =>
        \A i \in 1..Len(secrets) :
            SecretText(i) # <<>> /\ ~StrIn(SecretText(i), MASK_TEXT)
                => ~StrIn(SecretText(i), result.value)

\* C1, amended: when the scan and the masking complete, the text returned
\* holds no occurrence of any secret value of the findings that is not
\* white space only and cannot overlap a placeholder (it is no substring of
\* the placeholder, does not hold it, and neither ends with a beginning of
\* it nor begins with an end of it), whatever the order of the findings.
C1_MaskableSecretsGone ==
    Called /\ result.kind = "returned" =>
        \A i \in 1..Len(secrets) :
            IsMaskable(secrets[i]) /\ ~CanOverlapMask(SecretText(i))
                => ~StrIn(SecretText(i), result.value)

\* A call that masked a secret of the diff, reported with a second finding.
C1_Witness ==
    /\ Called
    /\ result.kind = "returned"
    /\ Len(secrets) > 1
    /\ \E i \in 1..Len(secrets) :
        /\ IsMaskable(secrets[i])
        /\ ~CanOverlapMask(SecretText(i))
        /\ StrCount(pr_diff, SecretText(i)) > 1
    /\ StrIn(MASK_TEXT, result.value)

\* C2: detect_and_mask_secrets never raises to its caller, whatever the
\* probe, the files, the engine, the report, the masking, the cleanup and
\* the logging do.
C2_NeverRaises == result.kind # "raised"

\* The failures the claim C3 names: of the temporary file, of the engine,
\* of its report, of the masking step.
C3_Failures == {"create", "write", "timeout", "engine", "report", "mask_read"}

\* C3: after an internal failure (writing the temporary file, the engine,
\* the masking step), the value returned is exactly the input diff, never
\* the empty string nor any other text.
C3_FailureReturnsInput ==
    Called /\ result.kind = "returned"
           /\ failures # {} /\ failures \subseteq C3_Failures
        => result.value = pr_diff

\* C4: once the call is over, on every path, neither the temporary input
\* file nor the report path exists (stated for the calls in which no
\* os.unlink failed).
C4_NoArtifactLeft ==
    Called /\ "unlink" \notin failures
        => ~tempFs.exists /\ reportFs.k = "absent"

\* C5: when the probe reports the engine unavailable, the call returns the
\* diff unchanged, no temporary file is created and the detect subprocess
\* is never spawned (the WARNING of the claim is left out here: _log prints
\* it with verbose on only).
C5_UnavailablePassThrough ==
    Called /\ probe.ret = "false" /\ probe.answer # "exit0" =>
        /\ result = Returned(pr_diff)
        /\ ~tempFs.exists
        /\ \A i \in 1..Len(events) : events[i] # "create"
        /\ detectRuns = 0

\* C6: for an empty or all-white-space input, the call returns the input
\* and spawns no process of any kind, with verbose on or off (stated for
\* the calls that return).
C6_BlankSpawnsNothing ==
    Called /\ Blank(pr_diff) /\ result.kind = "returned" =>
        /\ result.value = pr_diff
        /\ versionRuns = 0
        /\ detectRuns = 0
        /\ ~dateRan

\* C7: when the report exists, is not empty and holds no valid JSON, the
\* scan returns an empty finding list without raising, and the call returns
\* the diff unchanged (the ERROR of the claim is left out here: _log prints
\* it with verbose on only).
C7_MalformedReport ==
    scan.saw = "invalid" /\ scan.readable /\ Exited(exitStatus) =>
        /\ scan.ret = "returned"
        /\ scan.value = <<>>
        /\ (Called => result = Returned(pr_diff))

\* C8: when the detect subprocess exceeds its timeout, the scan returns
\* ([], report_path) without raising and without reading a report, and the
\* call returns the diff unchanged.
C8_Timeout ==
    exitStatus = "timeout" /\ scan.ret # "none" =>
        /\ scan.ret = "returned"
        /\ scan.value = <<>>
        /\ ~scan.readReport
        /\ (Called => result = Returned(pr_diff))

\* C9: the finding list the scan returns depends on the report and not on
\* the exit status: what it returned for the report at hand it can return
\* under the other exit status too, and an absent or zero-length report
\* gives the empty list under either.
C9_FindingsFromReportOnly ==
    pc = "mask" /\ exitStatus \in {"exit0", "exit1"} =>
        /\ \A out \in {"exit0", "exit1"} :
            \E r \in RunGitleaksDetect(out, reportFs, scan.readable) :
                r.ret = scan.ret /\ r.value = scan.value
        /\ (scan.saw \in {"absent", "empty"} => scan.value = <<>>)

\* The scan returned findings after a non-zero exit status.
C9_Witness ==
    /\ pc = "mask"
    /\ exitStatus = "exit1"
    /\ scan.ret = "returned"
    /\ scan.value # <<>>

\* C10: _is_gitleaks_available returns true exactly when the version
\* command exited with status zero, false in every other case, and
\* propagates no error.
C10_ProbeTrueIffExitZero ==
    probe.answer # "none" =>
        /\ probe.ret # "raise"
        /\ (probe.ret = "true" <=> probe.answer = "exit0")

\* A field of a record yields a value: it is there and is not empty.
Yields(v) == v.t = "str" /\ v.s # <<>>

\* The primary key when it yields a value, otherwise the secondary one,
\* otherwise the default.
PrimaryThenSecondary(item, primary, secondary, default) ==
    IF Yields(item[primary]) THEN item[primary]
    ELSE IF Yields(item[secondary]) THEN item[secondary]
    ELSE default

\* C11: every record of the report is kept, and its secret value and rule
\* are those of the primary key (Secret, RuleID) when it yields a value,
\* otherwise of the secondary key (secret, rule), otherwise the default
\* ('' and 'unknown'); a primary key that is present but empty gives way to
\* a secondary key that holds a value.
C11_PrimaryThenSecondary ==
    scan.ret = "returned" /\ scan.saw = "json" =>
        /\ Len(secrets) = Len(reportFs.json.items) \/ pc \in {"cleanup_report", "done"}
        /\ \A i \in 1..Len(secrets) :
            /\ SecretOf(secrets[i])
                 = PrimaryThenSecondary(secrets[i], "Secret", "secret", Str(<<>>))
            /\ RuleOf(secrets[i])
                 = PrimaryThenSecondary(secrets[i], "RuleID", "rule", Str(<<"unknown">>))

\* A finding whose secret value is empty or white space only.
Skipped(item) ==
    item.obj /\ SecretOf(item).t = "str" /\ StripsToEmpty(SecretOf(item).s)

\* What the loop of the masking gives for the text of the diff and a list
\* of findings.
Masked(items) ==
    MaskLoop([text |-> ReadText(WriteText(pr_diff)), total |-> 0,
              redacted |-> <<>>, lines |-> <<>>, marks |-> <<>>,
              raised |-> FALSE], items, 1)

\* C12: a finding whose secret value is empty or white space only is
\* skipped: its pass never stops the loop over the findings, and the text,
\* the replacement total and the redacted list of a masking that completed
\* are those of the same list without the skipped findings.
C12_SkippedFindingIsInert ==
    masking.ret # "none" =>
        /\ \A i \in 1..Len(secrets) :
            Skipped(secrets[i]) => masking.stoppedAt # i
        /\ masking.completed =>
            LET rest == Masked(SelectSeq(secrets, LAMBDA x : ~Skipped(x)))
            IN  /\ masking.text = rest.text
                /\ masking.total = rest.total
                /\ masking.redacted = rest.redacted

RECURSIVE InputOccurrences(_)
\* The occurrences in the input of the values of the first i findings.
InputOccurrences(i) ==
    IF i = 0 THEN 0
    ELSE StrCount(pr_diff, SecretText(i)) + InputOccurrences(i - 1)

\* The findings hold distinct values, none a substring of another or of
\* the placeholder, and the input holds no placeholder.
DistinctValues ==
    /\ ~StrIn(MASK_TEXT, pr_diff)
    /\ \A i \in 1..Len(secrets) :
        /\ ~StrIn(SecretText(i), MASK_TEXT)
        /\ \A j \in 1..Len(secrets) :
            i # j => SecretText(i) # SecretText(j)
                     /\ ~StrIn(SecretText(i), SecretText(j))

\* An end of v is a beginning of w.
RunsInto(v, w) ==
    \E k \in 1..Len(v) :
        k <= Len(w) /\ SubSeq(v, Len(v) - k + 1, Len(v)) = SubSeq(w, 1, k)

\* No value is white space only, can overlap a placeholder or can overlap
\* another value, and the input holds no carriage return.
SeparateValues ==
    /\ \A i \in 1..Len(pr_diff) : pr_diff[i] # "\r"
    /\ \A i \in 1..Len(secrets) :
        /\ IsMaskable(secrets[i])
        /\ ~CanOverlapMask(SecretText(i))
        /\ \A j \in 1..Len(secrets) :
            i # j => ~RunsInto(SecretText(i), SecretText(j))

\* The masked text holds none of the values, as many placeholders as the
\* input held occurrences of the values, and the redacted list has one
\* entry per finding, in order, with its count of occurrences in the input.
MaskedAsCounted ==
    /\ \A i \in 1..Len(secrets) : ~StrIn(SecretText(i), masking.text)
    /\ StrCount(masking.text, MASK_TEXT) = InputOccurrences(Len(secrets))
    /\ Len(masking.redacted) = Len(secrets)
    /\ \A i \in 1..Len(secrets) :
        /\ masking.redacted[i].original = SecretText(i)
        /\ masking.redacted[i].occurrences = StrCount(pr_diff, SecretText(i))

\* C13, as claimed: for an input without placeholder and findings of
\* distinct values, none a substring of another or of the placeholder, the
\* masked output holds no occurrence of any value, as many placeholders as
\* the input held occurrences, and one redacted entry per finding, in
\* order, with that finding's occurrence count.
C13_DistinctValuesMasked ==
    masking.completed /\ DistinctValues => MaskedAsCounted

\* C13, amended: the same, for values of which moreover none is white space
\* only, none can overlap a placeholder (hold it, end with a beginning of
\* it, begin with an end of it), no end of one is a beginning of another,
\* and for an input without carriage return.
C13_SeparateValuesMasked ==
    masking.completed /\ DistinctValues /\ SeparateValues => MaskedAsCounted

\* Two findings of separate values, both in the input, were masked.
C13_Witness ==
    /\ masking.completed
    /\ DistinctValues
    /\ SeparateValues
    /\ Len(secrets) = 2
    /\ \A i \in 1..2 : StrCount(pr_diff, SecretText(i)) > 0
    /\ StrCount(masking.text, MASK_TEXT) = 2

\* C14: whenever the masking ran and the final summary was printed, the
\* redaction count of the summary is the total of the replacements made in
\* the text, and the summary says secrets were detected exactly when at
\* least one replacement was made.
C14_SummaryCountsReplacements ==
    verbose /\ masking.completed /\ masking.summarised =>
        /\ masking.summaryCount = masking.total
        /\ (masking.summaryDetected <=> masking.total > 0)

\* C15: the placeholder written into the text in place of a secret is the
\* string its redaction record stores as replaced_with, which is the
\* documented '[REDACTED_SECRET]'.
C15_OnePlaceholder ==
    masking.completed =>
        \A i \in 1..Len(masking.redacted) :
            /\ masking.redacted[i].replaced_with = MASK_LABEL
            /\ masking.redacted[i].occurrences > 0
                   => StrIn(masking.redacted[i].replaced_with, masking.text)

\* C16: when the report gives a non-empty finding list of which every
\* finding is skipped, the text the call returns is exactly the input and
\* the summary says no secret was detected.
C16_AllSkippedReturnsInput ==
    /\ Called
    /\ result.kind = "returned"
    /\ masking.completed
    /\ secrets # <<>>
    /\ \A i \in 1..Len(secrets) : Skipped(secrets[i])
    => result.value = pr_diff /\ ~masking.summaryDetected

RECURSIVE NetDelta(_)
\* The characters the first i redactions recorded add to the text:
\* occurrences * (len(placeholder) - len(secret value)) for each.
NetDelta(i) ==
    IF i = 0 THEN 0
    ELSE masking.redacted[i].occurrences
           * (Len(MASK_TEXT) - Len(masking.redacted[i].original))
         + NetDelta(i - 1)

\* C17: in a call in which the masking ran, the length of the output minus
\* the length of the input is the sum, over the findings processed, of the
\* occurrences recorded times (length of the placeholder written minus
\* length of the secret value).
C17_LengthDelta ==
    Called /\ result.kind = "returned" /\ masking.completed =>
        Len(result.value) - Len(pr_diff) = NetDelta(Len(masking.redacted))

\* A call holds its input path from the creation of the file to its
\* unlinking, and its report path from mktemp to the unlinking.
HoldsInput(i) == calls[i].pc \in {"reserve", "detect", "scan", "cleanup_temp"}
HoldsReport(i) == calls[i].pc \in {"detect", "scan", "cleanup_temp", "cleanup_report"}

\* C18: in every interleaving of two concurrent calls, the calls never
\* hold the same input path nor the same report path, no call reads a
\* report about the other call's diff, and no call unlinks a file of the
\* other call.
C18_PathsNeverShared ==
    \A i \in Calls : \A j \in Calls \ {i} :
        /\ HoldsInput(i) /\ HoldsInput(j)
               => calls[i].temp_file # calls[j].temp_file
        /\ HoldsReport(i) /\ HoldsReport(j)
               => calls[i].report_file # calls[j].report_file
        /\ calls[i].read \in {0, i}
        /\ calls[i].removed \subseteq {i}

\* C19: every call eventually ends, whatever process never exits: no wait
\* of the call is unbounded, with verbose on or off.
C19_EventuallyReturns == <>(pc = "done")

\* C20: in one call the probe runs at most once and the detect subprocess
\* at most once: detect is not run again after a timeout, a non-zero exit
\* or a malformed report, and is never run when the probe failed.
C20_OneProbeOneDetect ==
    /\ versionRuns <= 1
    /\ detectRuns <= 1
    /\ probe.ret \in {"false", "raise"} => detectRuns = 0
    /\ probe.answer \notin {"none", "exit0"} => detectRuns = 0
    /\ Called /\ (exitStatus \in {"timeout", "exit1"} \/ scan.saw = "invalid")
           => detectRuns = 1

\* A call ended after its one detect run timed out.
C20_Witness ==
    /\ Called
    /\ versionRuns = 1
    /\ detectRuns = 1
    /\ exitStatus = "timeout"

\* The place of an event in the order of a call.
Rank(e) ==
    CASE e = "probe" -> 1
      [] e = "create" -> 2
      [] e = "write" -> 3
      [] e = "detect" -> 4
      [] e = "read_report" -> 5
      [] e = "mask" -> 6
      [] OTHER -> 7

Happened(e) == \E i \in 1..Len(events) : events[i] = e

\* C21: the events of a call come in the order probe, creation of the
\* input file, writing, detect, reading of the report, masking, and only
\* then the deletions; and the cleanup runs on every path on which a
\* temporary file was created, before the call ends (stated for the calls
\* in which no _log call and no os.unlink failed).
C21_OrderThenCleanup ==
    /\ \A i \in 1..Len(events) : \A j \in 1..Len(events) :
          i < j /\ Rank(events[j]) < 7 => Rank(events[i]) < Rank(events[j])
    /\ Called /\ failures \cap {"log", "unlink"} = {} =>
          /\ Happened("create") => Happened("unlink_temp")
          /\ reportFs.k = "absent"

\* The secret values the engine reported, as the scan returned them.
ReportedValues == {SecretText(i) : i \in 1..Len(secrets)} \ {<<>>}

\* C22: no line of the diagnostic log carries a secret value the engine
\* reported, with verbose on or off.
C22_NoRawSecretLogged == \A line \in log : line[3] \notin ReportedValues

\* A step of the cleanup in which os.unlink was tried on a path and failed.
TempUnlinkFailed ==
    pc = "cleanup_temp" /\ temp_file = "path" /\ tempFs.exists /\ tempFs'.exists
ReportUnlinkFailed ==
    /\ pc = "cleanup_report"
    /\ report_file = "path"
    /\ reportFs.k # "absent"
    /\ reportFs'.k # "absent"

\* C23: a deletion that fails during the cleanup is never raised: it leaves
\* the value the call returns as it was, and after a failed deletion of the
\* input file the cleanup goes on to the report file.
C23_UnlinkFailureContained ==
    [][/\ TempUnlinkFailed => result' = result /\ pc' = "cleanup_report"
       /\ ReportUnlinkFailed => result' = result]_vars

\* The findings the masking processes, in report order.
Processed == SelectSeq(secrets, IsMaskable)

\* The content before and after the pass of the i-th processed finding.
ContentBefore(i) == Masked(SubSeq(Processed, 1, i - 1)).text
ContentAfter(i) == Masked(SubSeq(Processed, 1, i)).text

\* The redacted list follows the report order, and each entry records the
\* non-overlapping occurrences of its value in the content of that moment,
\* which is the number of replacements made for it.
CountsInOrder ==
    /\ Len(masking.redacted) = Len(Processed)
    /\ \A i \in 1..Len(Processed) :
        LET v == SecretOf(Processed[i]).s
            entry == masking.redacted[i]
        IN  /\ entry.original = v
            /\ entry.occurrences = StrCount(ContentBefore(i), v)
            /\ Len(ContentAfter(i)) - Len(ContentBefore(i))
                 = entry.occurrences * (Len(MASK_TEXT) - Len(v))
    /\ masking.text = ContentAfter(Len(Processed))

\* Two processed findings, the second of the value v: the same value as the
\* first, or a substring of the first, longer one.
Repeated(v) ==
    /\ Len(secrets) = 2 /\ Len(Processed) = 2
    /\ SecretText(2) = v
    /\ SecretText(1) = v
Inside(v) ==
    /\ Len(secrets) = 2 /\ Len(Processed) = 2
    /\ SecretText(2) = v
    /\ SecretText(1) # v
    /\ StrIn(v, SecretText(1))

\* The occurrences of the second value that lie outside the first one.
OutsideFirst ==
    StrCount(StrReplace(ContentBefore(1), SecretText(1), <<"|">>), SecretText(2))

\* C24, as claimed: findings are processed in report order, each recorded
\* count is the number of non-overlapping occurrences in the current
\* content and of replacements made; hence a second finding of the same
\* value records 0, and a value that is a substring of an earlier, longer
\* one records only its occurrences outside the longer one.
C24_CountsOnCurrentContent ==
    masking.completed =>
        /\ CountsInOrder
        /\ \A v \in ReportedValues :
            /\ Repeated(v) => masking.redacted[2].occurrences = 0
            /\ Inside(v) => masking.redacted[2].occurrences = OutsideFirst

\* C24, amended: the same, the two consequences being those of a second
\* value that cannot overlap a placeholder (is no substring of it, does not
\* hold it, neither ends with a beginning of it nor begins with an end of
\* it).
C24_CountsOnCurrentContentApart ==
    masking.completed =>
        /\ CountsInOrder
        /\ \A v \in ReportedValues :
            ~CanOverlapMask(v) =>
                /\ Repeated(v) => masking.redacted[2].occurrences = 0
                /\ Inside(v) => masking.redacted[2].occurrences = OutsideFirst

\* A value still in the content after the pass of a longer one that holds it.
C24_Witness ==
    /\ masking.completed
    /\ \E v \in ReportedValues : ~CanOverlapMask(v) /\ Inside(v)
    /\ masking.redacted[1].occurrences > 0
    /\ masking.redacted[2].occurrences > 0

\* C25: when the report parses as JSON and its top-level value is no array
\* (an object, a string, a number, a boolean, null), the scan returns an
\* empty finding list without raising, and the call returns the diff
\* unchanged.
C25_NonArrayReport ==
    /\ scan.ret # "none"
    /\ scan.readable
    /\ Exited(exitStatus)
    /\ reportFs.k = "json"
    /\ reportFs.json.t # "arr"
    => /\ scan.ret = "returned"
       /\ scan.value = <<>>
       /\ result.kind # "raised"
       /\ result.kind = "returned" => result.value = pr_diff

\* A record that is no object, or whose secret value is null or no string.
Malformed(item) == ~item.obj \/ SecretOf(item).t # "str"

\* C26: when the report is an array of which one record is malformed, the
\* records that carry a non-empty string secret value are still masked in
\* the text returned (stated for the calls in which nothing else failed,
\* and for the values that cannot overlap a placeholder).
C26_MalformedRecordAlone ==
    /\ pc = "cleanup_temp"
    /\ result.kind = "returned"
    /\ failures \subseteq {"report"}
    /\ scan.readable
    /\ Exited(exitStatus)
    /\ reportFs.k = "json"
    /\ reportFs.json.t = "arr"
    /\ \E i \in 1..Len(reportFs.json.items) : Malformed(reportFs.json.items[i])
    => \A i \in 1..Len(reportFs.json.items) :
           LET item == reportFs.json.items[i]
           IN  ~Malformed(item) /\ IsMaskable(item)
               /\ ~CanOverlapMask(SecretOf(item).s)
                  => ~StrIn(SecretOf(item).s, result.value)

\* C27: the text the masking operates on is the input diff, character for
\* character, carriage returns and line endings included: writing the diff
\* to the temporary file and reading it back changes nothing, so a text
\* returned without any replacement is the input.
C27_RoundTripIdentity ==
    masking.completed =>
        /\ ContentBefore(1) = pr_diff
        /\ masking.total = 0 /\ result.kind = "returned"
               => result.value = pr_diff


\* The attempts of the audit so far, each by how it ended.
Attempts == audit.outcomes
FailedAttempt(o) == o \in {"call_failed", "unparseable"}

\* C28: run_security_audit makes up to NUM_RETRIES = 3 attempts: every
\* attempt before the last that ends with a failed AI call or an unparseable
\* response is followed by another attempt, the audit stops at the first
\* attempt whose response parses, and a failure of the analysis is returned
\* only after the third attempt has failed.
C28_ThreeAttempts ==
    audit.pc = "done" /\ Attempts # <<>> =>
        /\ Len(Attempts) <= NUM_RETRIES
        /\ \A i \in 1..(Len(Attempts) - 1) : FailedAttempt(Attempts[i])
        /\ audit.result.ok <=> Attempts[Len(Attempts)] = "parsed"
        /\ FailedAttempt(Attempts[Len(Attempts)]) => Len(Attempts) = NUM_RETRIES


\* The requests of the current call_with_retry, and its waits.
Requests == {i \in 1..Len(client.trace) : client.trace[i].kind = "request"}
Waits == {i \in 1..Len(client.trace) : client.trace[i].kind = "wait"}
Allowed == IF client.max_retries > 0 THEN client.max_retries ELSE 0

\* C29: call_with_retry never raises and issues at most max_retries
\* requests; it returns (True, text, '') at the first request that succeeds,
\* (False, '', error) only after exactly max_retries failed requests, waits
\* between a failed request and the next and not after the last failure, and
\* with max_retries <= 0 issues no request and returns a failure.
C29_BoundedRetries ==
    /\ Cardinality(Requests) <= Allowed
    /\ \A i \in Waits :
          /\ i > 1 /\ client.trace[i - 1] = Request(FALSE)
          /\ i = Len(client.trace) => client.pc \in {"loop", "request"}
    /\ \A i \in Requests :
          /\ i > 1 => client.trace[i - 1].kind = "wait"
          /\ i < Len(client.trace) => ~client.trace[i].ok
    /\ client.pc = "returned" =>
          LET r == client.result
              t == client.trace
          IN  /\ r.kind = "returned"
              /\ r.ok => /\ t # <<>> /\ t[Len(t)] = Request(TRUE)
                          /\ r.error = NoText
              /\ ~r.ok => /\ Cardinality(Requests) = Allowed
                           /\ \A i \in Requests : ~t[i].ok
                           /\ r.text = TextContent(<<>>)
                           /\ ~IsEmptyText(r.error)
              /\ client.max_retries <= 0 => t = <<>> /\ ~r.ok

\* C29: a call with max_retries = 3 whose three requests failed, with a wait
\* of 1 and a wait of 2 between them, has returned the failure.
C29_Witness ==
    /\ client.pc = "returned"
    /\ client.max_retries = 3
    /\ ~client.result.ok
    /\ client.trace = <<Request(FALSE), Wait(1), Request(FALSE), Wait(2), Request(FALSE)>>


\* The structure _extract_security_findings gives for a response without
\* findings.
EmptyFindings == Dict({"findings", "analysis_summary"}, 0, FALSE)

\* C30: once the repository check has run, run_security_audit returns a
\* triple and never raises: (False, message, {}) without a call of the
\* client when repo_dir does not exist, (False, non-empty message, {}) on
\* every other failure, and (True, '', R) on success, R being the parsed
\* response when that is a dict with 'findings' and the empty-findings
\* structure with review_completed false otherwise.
C30_AlwaysATriple ==
    audit.pc = "done" =>
        LET r == audit.result
        IN  /\ r.kind = "returned"
            /\ ~audit.repo_exists =>
                  ~r.ok /\ r.results = EmptyDict /\ Attempts = <<>> /\ client.pc = "idle"
            /\ ~r.ok => ~IsEmptyText(r.msg) /\ r.results = EmptyDict
            /\ r.ok =>
                  /\ r.msg = NoText
                  /\ r.results.type = "dict" /\ "findings" \in r.results.keys
                  /\ r.results =
                        IF audit.parsed.type = "dict" /\ "findings" \in audit.parsed.keys
                        THEN audit.parsed
                        ELSE EmptyFindings

=============================================================================
